---- MODULE Spec2Model ----
(***************************************************************************)
(* Model of the soil-monitor telemetry agent (MainController.py).          *)
(*                                                                         *)
(* One MainController: the constructor registers the sensor, run() loops  *)
(* over cycles.  A cycle is modelled one external call per step, so that   *)
(* connectivity, the remote store and the operator can interleave with it. *)
(* Readings are the integers 1, 2, ... in production order; 0 is None.     *)
(***************************************************************************)
EXTENDS Integers, Sequences, FiniteSets, TLC

\* ---------------------------------------------------------------- bounds
\* Number of readings the sensor produces in a run.
MaxReadings == 5
\* Number of successful remote writes recorded in a run.
MaxRemote == 6

\* Capacity of the buffer: Config.MAX_OFFLINE_RECORDS, which Config.py sets to
\* 1000, scaled down.
MAX_OFFLINE_RECORDS == 3

\* ------------------------------------------------------------- constants
\* len(Config.INTERNET_TEST_URLS)
NUM_TEST_URLS == 2
\* Config.MEASUREMENT_INTERVAL, in seconds
MEASUREMENT_INTERVAL == 300

VARIABLES
  pc,          \* position of the controller in __init__ / run()
  buffer,      \* OfflineLogger contents (LocalBuffer), oldest first
  remote,      \* readings successfully saved by OnlineLogger, in order
  nextId,      \* next reading the sensor will produce
  regAttempts, \* calls of online.register_sensor
  data,        \* run(): data of the current cycle (0 = None)
  offline_data,\* run(): result of offline.load_all() in the current cycle
  idx,         \* run(): position of the all(...) generator in offline_data
  cyc,         \* what the current cycle has done so far (observations)
  offRun,      \* completed consecutive cycles that buffered while unreachable
  abortedAfter,\* per reading: drains that forwarded it and then failed
  appendLog,   \* readings handed to offline.save since the last clear()
  stopCause,   \* "none", "cancel", "exception" (in run) or "init_exception"
  startup,     \* what _register_sensor_on_connection saw and did
  env          \* what the surroundings do from now on: "any", "good", "nosensor"

vars == <<pc, buffer, remote, nextId, regAttempts, data, offline_data, idx,
          cyc, offRun, abortedAfter, appendLog, stopCause, startup, env>>

Readings == 1..(MaxReadings + 1)

\* ------------------------------------------------------ pure operations

\* Outcomes of one urlopen(Request(url), timeout=3) call.
UrlOutcomes == {"ok", "URLError", "other"}
ProbeInputs == [1..NUM_TEST_URLS -> UrlOutcomes]

\* has_internet(): first URL that opens gives True, URLError moves on to the
\* next URL, any other exception is not caught and leaves the method.
RECURSIVE has_internet_from(_, _)
has_internet_from(outs, i) ==
  IF i > NUM_TEST_URLS THEN "False"
  ELSE IF outs[i] = "ok" THEN "True"
  ELSE IF outs[i] = "URLError" THEN has_internet_from(outs, i + 1)
  ELSE "raise"

has_internet(outs) == has_internet_from(outs, 1)

\* What a call of has_internet() can give: "True", "False" or "raise".
ProbeResults == {has_internet(outs) : outs \in ProbeInputs}

\* Outcomes of the SELECT in is_sensor_assigned: the lookup raises, fetchone()
\* returns None, or it returns a row (farm_id, is_active).
Lookups ==
  {[kind |-> "error", farm_id |-> "None", is_active |-> 0],
   [kind |-> "None",  farm_id |-> "None", is_active |-> 0]}
  \cup [kind : {"row"}, farm_id : {"None", "farm"}, is_active : {0, 1}]

\* No lookup was made in this cycle.
NotAsked == [kind |-> "notasked", farm_id |-> "None", is_active |-> 0]

\* Variant of assigned_of_lookup: the is_active column is not looked at.
assigned_ignoring_is_active(l) ==
  IF l.kind = "error" THEN FALSE
  ELSE l.kind # "None" /\ l.farm_id # "None"

\* Variant of assigned_of_lookup: a failed lookup counts as assigned.
assigned_fail_open(l) ==
  IF l.kind = "error" THEN TRUE
  ELSE l.kind # "None" /\ l.farm_id # "None" /\ l.is_active = 1

\* Line 61: result is not None and result[0] is not None and result[1]==1;
\* line 63-66: an exception of the lookup gives False.
assigned_of_lookup(l) ==
  IF l.kind = "error" THEN FALSE
  ELSE l.kind # "None" /\ l.farm_id # "None" /\ l.is_active = 1

\* Variant of offline_save: a full buffer keeps growing.
offline_save_unbounded(buf, r) == Append(buf, r)

\* OfflineLogger.save: append at the tail, evicting from the head at capacity.
offline_save(buf, r) ==
  IF Len(buf) >= MAX_OFFLINE_RECORDS
  THEN Append(SubSeq(buf, Len(buf) - MAX_OFFLINE_RECORDS + 2, Len(buf)), r)
  ELSE Append(buf, r)

\* OfflineLogger.load_all: the full ordered contents, nothing removed.
offline_load_all(buf) == buf

\* OfflineLogger.clear
offline_clear(buf) == << >>

\* OnlineLogger.save: a successful save adds the reading to the remote store.
online_save(rem, r) == Append(rem, r)

\* ------------------------------------------------------------ the state

NewCycle ==
  [conn1 |-> "none", lookup |-> NotAsked, read |-> "no", conn2 |-> "none",
   fresh |-> "none", drain |-> "none", failedAt |-> 0, attempts |-> 0,
   cleared |-> FALSE, appended |-> FALSE, reads |-> 0, slept |-> 0,
   waited |-> 0,
   bufAtStart |-> << >>, remAtStart |-> 0, remAtDrain |-> 0]

Init ==
  /\ pc = "register"
  /\ buffer \in {<< >>}
  /\ remote = << >>
  /\ nextId = 1
  /\ regAttempts = 0
  /\ data = 0
  /\ offline_data = << >>
  /\ idx = 0
  /\ cyc = NewCycle
  /\ offRun = 0
  /\ abortedAfter = [r \in Readings |-> 0]
  /\ appendLog = << >>
  /\ stopCause = "none"
  /\ startup = [probe |-> "none", outcome |-> "none"]
  /\ env = "any"

\* An exception nobody catches leaves run() (or __init__).
Crash(cause) ==
  /\ pc' = "crashed"
  /\ stopCause' = cause

\* __init__ -> _register_sensor_on_connection
Register ==
  /\ pc = "register"
  /\ \E h \in ProbeResults, info \in BOOLEAN, ok \in BOOLEAN :
       IF h = "raise"
       THEN /\ Crash("init_exception")
            /\ startup' = [probe |-> "raise", outcome |-> "none"]
            /\ UNCHANGED regAttempts
       ELSE /\ pc' = "assign"
            /\ regAttempts' = IF h = "True" /\ info THEN regAttempts + 1
                              ELSE regAttempts
            /\ startup' =
                 [probe |-> h,
                  outcome |-> IF h = "False" THEN "deferred"
                              ELSE IF ~info THEN "noinfo"
                              ELSE IF ok THEN "registered" ELSE "failed"]
            /\ UNCHANGED stopCause
  /\ UNCHANGED <<buffer, remote, nextId, data, offline_data, idx, cyc,
                 offRun, abortedAfter, appendLog>>

  /\ UNCHANGED env
\* Variant of IsSensorAssigned: an unassigned sensor goes straight to the next
\* iteration (the time.sleep of line 75 is missing).
IsSensorAssignedNoSleep ==
  /\ pc = "assign"
  /\ \E h \in ProbeResults :
     \E l \in IF h = "True" THEN Lookups ELSE {NotAsked} :
       LET c == [NewCycle EXCEPT !.bufAtStart = buffer,
                                 !.remAtStart = Len(remote)]
       IN
       IF h = "raise"
       THEN /\ Crash("exception")
            /\ cyc' = [c EXCEPT !.conn1 = "raise"]
            /\ UNCHANGED offRun
       ELSE IF h = "False"
       THEN /\ pc' = "read"
            /\ cyc' = [c EXCEPT !.conn1 = "False"]
            /\ UNCHANGED <<offRun, stopCause>>
       ELSE /\ pc' = IF assigned_of_lookup(l) THEN "read" ELSE "assign"
            /\ cyc' = [c EXCEPT !.conn1 = "True", !.lookup = l]
            /\ offRun' = 0
            /\ UNCHANGED stopCause
  /\ data' = 0
  /\ offline_data' = << >>
  /\ idx' = 0
  /\ UNCHANGED <<buffer, remote, nextId, regAttempts, abortedAfter,
                 appendLog>>
  /\ UNCHANGED <<startup, env>>

\* run(), line 73: is_sensor_assigned(machine_id), first statement of a cycle
IsSensorAssigned ==
  /\ pc = "assign"
  /\ \E h \in ProbeResults :
     \E l \in IF h = "True" THEN Lookups ELSE {NotAsked} :
       LET c == [NewCycle EXCEPT !.bufAtStart = buffer,
                                 !.remAtStart = Len(remote)]
       IN
       IF h = "raise"
       THEN /\ Crash("exception")
            /\ cyc' = [c EXCEPT !.conn1 = "raise"]
            /\ UNCHANGED offRun
       ELSE IF h = "False"
       THEN /\ pc' = "read"
            /\ cyc' = [c EXCEPT !.conn1 = "False"]
            /\ UNCHANGED <<offRun, stopCause>>
       ELSE /\ pc' = IF assigned_of_lookup(l) THEN "read" ELSE "sleep"
            /\ cyc' = [c EXCEPT !.conn1 = "True", !.lookup = l]
            /\ offRun' = 0
            /\ UNCHANGED stopCause
  /\ data' = 0
  /\ offline_data' = << >>
  /\ idx' = 0
  /\ UNCHANGED <<buffer, remote, nextId, regAttempts, abortedAfter,
                 appendLog>>

  /\ UNCHANGED <<startup, env>>
\* Variant of ReadSensor: a failed read does not end the cycle (the continue
\* of line 81 is missing).
ReadSensorNoContinue ==
  /\ pc = "read"
  /\ \/ /\ nextId <= MaxReadings
        /\ data' = nextId
        /\ nextId' = nextId + 1
        /\ cyc' = [cyc EXCEPT !.read = "ok", !.reads = @ + 1]
        /\ pc' = "probe"
        /\ UNCHANGED offRun
     \/ /\ data' = 0
        /\ cyc' = [cyc EXCEPT !.read = "fail", !.reads = @ + 1]
        /\ pc' = "probe"
        /\ offRun' = 0
        /\ UNCHANGED nextId
  /\ UNCHANGED <<buffer, remote, regAttempts, offline_data, idx,
                 abortedAfter, appendLog, stopCause>>
  /\ UNCHANGED <<startup, env>>

\* run(), lines 78-81: data = self.sensor.read_data()
ReadSensor ==
  /\ pc = "read"
  /\ \/ /\ nextId <= MaxReadings
        /\ data' = nextId
        /\ nextId' = nextId + 1
        /\ cyc' = [cyc EXCEPT !.read = "ok", !.reads = @ + 1]
        /\ pc' = "probe"
        /\ UNCHANGED offRun
     \/ /\ data' = 0
        /\ cyc' = [cyc EXCEPT !.read = "fail", !.reads = @ + 1]
        /\ pc' = "sleep"
        /\ offRun' = 0
        /\ UNCHANGED nextId
  /\ UNCHANGED <<buffer, remote, regAttempts, offline_data, idx,
                 abortedAfter, appendLog, stopCause>>

  /\ UNCHANGED <<startup, env>>
\* Variant of ProbeAndRoute: the else branch does not save a reading when the
\* buffer already holds one.
ProbeAndRouteDropping ==
  /\ pc = "probe"
  /\ \E h \in ProbeResults :
       IF h = "raise"
       THEN /\ Crash("exception")
            /\ cyc' = [cyc EXCEPT !.conn2 = "raise"]
            /\ UNCHANGED <<buffer, appendLog, offRun>>
       ELSE IF h = "True"
       THEN /\ pc' = "save"
            /\ cyc' = [cyc EXCEPT !.conn2 = "True"]
            /\ offRun' = 0
            /\ UNCHANGED <<buffer, appendLog, stopCause>>
       ELSE /\ pc' = "sleep"
            /\ buffer' = IF buffer = << >> THEN offline_save(buffer, data)
                         ELSE buffer
            /\ appendLog' = Append(appendLog, data)
            /\ cyc' = [cyc EXCEPT !.conn2 = "False", !.appended = TRUE]
            /\ offRun' = IF cyc.conn1 = "False" THEN offRun + 1 ELSE 0
            /\ UNCHANGED stopCause
  /\ UNCHANGED <<remote, nextId, regAttempts, data, offline_data, idx,
                 abortedAfter>>

  /\ UNCHANGED <<startup, env>>
\* Variant of ProbeAndRoute: the reading is saved offline whatever the probe
\* says, and also goes to the online save when the network is reachable.
ProbeAndRouteBoth ==
  /\ pc = "probe"
  /\ \E h \in ProbeResults :
       IF h = "raise"
       THEN /\ Crash("exception")
            /\ cyc' = [cyc EXCEPT !.conn2 = "raise"]
            /\ UNCHANGED <<buffer, appendLog, offRun>>
       ELSE /\ pc' = IF h = "True" THEN "save" ELSE "sleep"
            /\ buffer' = offline_save(buffer, data)
            /\ appendLog' = Append(appendLog, data)
            /\ cyc' = [cyc EXCEPT !.conn2 = h, !.appended = TRUE]
            /\ offRun' = IF h = "False" /\ cyc.conn1 = "False"
                         THEN offRun + 1 ELSE 0
            /\ UNCHANGED stopCause
  /\ UNCHANGED <<remote, nextId, regAttempts, data, offline_data, idx,
                 abortedAfter>>
  /\ UNCHANGED <<startup, env>>

\* run(), lines 83 and 90-91: the second has_internet() and the else branch
ProbeAndRoute ==
  /\ pc = "probe"
  /\ \E h \in ProbeResults :
       IF h = "raise"
       THEN /\ Crash("exception")
            /\ cyc' = [cyc EXCEPT !.conn2 = "raise"]
            /\ UNCHANGED <<buffer, appendLog, offRun>>
       ELSE IF h = "True"
       THEN /\ pc' = "save"
            /\ cyc' = [cyc EXCEPT !.conn2 = "True"]
            /\ offRun' = 0
            /\ UNCHANGED <<buffer, appendLog, stopCause>>
       ELSE /\ pc' = "sleep"
            /\ buffer' = offline_save(buffer, data)
            /\ appendLog' = Append(appendLog, data)
            /\ cyc' = [cyc EXCEPT !.conn2 = "False", !.appended = TRUE]
            /\ offRun' = IF cyc.conn1 = "False" THEN offRun + 1 ELSE 0
            /\ UNCHANGED stopCause
  /\ UNCHANGED <<remote, nextId, regAttempts, data, offline_data, idx,
                 abortedAfter>>

  /\ UNCHANGED <<startup, env>>
\* Variant of SaveFresh: a reading saved online is also kept in the buffer.
SaveFreshAndBuffer ==
  /\ pc = "save"
  /\ \/ /\ Len(remote) < MaxRemote
        /\ remote' = online_save(remote, data)
        /\ buffer' = offline_save(buffer, data)
        /\ cyc' = [cyc EXCEPT !.fresh = "ok", !.attempts = @ + 1]
        /\ pc' = "load"
     \/ /\ cyc' = [cyc EXCEPT !.fresh = "fail", !.attempts = @ + 1]
        /\ pc' = "sleep"
        /\ UNCHANGED <<remote, buffer>>
  /\ UNCHANGED <<nextId, regAttempts, data, offline_data, idx,
                 offRun, abortedAfter, appendLog, stopCause>>

  /\ UNCHANGED <<startup, env>>
\* Variant of SaveFresh: the buffer is loaded and drained whether or not the
\* fresh save succeeded.
SaveFreshDrainAnyway ==
  /\ pc = "save"
  /\ \/ /\ Len(remote) < MaxRemote
        /\ remote' = online_save(remote, data)
        /\ cyc' = [cyc EXCEPT !.fresh = "ok", !.attempts = @ + 1]
        /\ pc' = "load"
     \/ /\ cyc' = [cyc EXCEPT !.fresh = "fail", !.attempts = @ + 1]
        /\ pc' = "load"
        /\ UNCHANGED remote
  /\ UNCHANGED <<buffer, nextId, regAttempts, data, offline_data, idx,
                 offRun, abortedAfter, appendLog, stopCause>>
  /\ UNCHANGED <<startup, env>>

\* run(), line 84: if self.online.save(data)
SaveFresh ==
  /\ pc = "save"
  /\ \/ /\ Len(remote) < MaxRemote
        /\ remote' = online_save(remote, data)
        /\ cyc' = [cyc EXCEPT !.fresh = "ok", !.attempts = @ + 1]
        /\ pc' = "load"
     \/ /\ cyc' = [cyc EXCEPT !.fresh = "fail", !.attempts = @ + 1]
        /\ pc' = "sleep"
        /\ UNCHANGED remote
  /\ UNCHANGED <<buffer, nextId, regAttempts, data, offline_data, idx,
                 offRun, abortedAfter, appendLog, stopCause>>

  /\ UNCHANGED <<startup, env>>
\* run(), lines 86-87: offline_data = self.offline.load_all()
LoadOffline ==
  /\ pc = "load"
  /\ offline_data' = offline_load_all(buffer)
  /\ idx' = 1
  /\ cyc' = [cyc EXCEPT !.remAtDrain = Len(remote),
                        !.drain = IF buffer = << >> THEN "none" ELSE "running"]
  /\ pc' = IF offline_load_all(buffer) = << >> THEN "sleep" ELSE "drain"
  /\ UNCHANGED <<buffer, remote, nextId, regAttempts, data, offRun,
                 abortedAfter, appendLog, stopCause>>

  /\ UNCHANGED <<startup, env>>
\* Variant of DrainStep: every forwarded reading is removed from the buffer
\* at once (a partial clear).
DrainStepPartialClear ==
  /\ pc = "drain"
  /\ \/ /\ Len(remote) < MaxRemote
        /\ remote' = online_save(remote, offline_data[idx])
        /\ buffer' = IF buffer = << >> THEN buffer ELSE Tail(buffer)
        /\ idx' = idx + 1
        /\ cyc' = [cyc EXCEPT !.attempts = @ + 1,
                     !.drain = IF idx = Len(offline_data) THEN "ok" ELSE @]
        /\ pc' = IF idx = Len(offline_data) THEN "clear" ELSE "drain"
        /\ UNCHANGED abortedAfter
     \/ /\ cyc' = [cyc EXCEPT !.attempts = @ + 1, !.drain = "fail",
                              !.failedAt = idx]
        /\ abortedAfter' =
             [r \in Readings |->
                IF \E k \in 1..(idx - 1) : offline_data[k] = r
                THEN abortedAfter[r] + 1 ELSE abortedAfter[r]]
        /\ pc' = "sleep"
        /\ UNCHANGED <<remote, idx, buffer>>
  /\ UNCHANGED <<nextId, regAttempts, data, offline_data, offRun,
                 appendLog, stopCause>>

  /\ UNCHANGED <<startup, env>>
\* Variant of DrainStep: every buffered reading is saved before the results
\* are looked at (all([...]) over a list instead of a generator).
DrainStepNoShortCircuit ==
  /\ pc = "drain"
  /\ \/ /\ Len(remote) < MaxRemote
        /\ remote' = online_save(remote, offline_data[idx])
        /\ idx' = idx + 1
        /\ cyc' = [cyc EXCEPT !.attempts = @ + 1,
                     !.drain = IF idx = Len(offline_data) /\ @ = "running"
                               THEN "ok" ELSE @]
        /\ pc' = IF idx < Len(offline_data) THEN "drain"
                 ELSE IF cyc.drain = "running" THEN "clear" ELSE "sleep"
        /\ UNCHANGED abortedAfter
     \/ /\ cyc' = [cyc EXCEPT !.attempts = @ + 1, !.drain = "fail",
                     !.failedAt = IF @ = 0 THEN idx ELSE @]
        /\ abortedAfter' =
             [r \in Readings |->
                IF cyc.drain = "running"
                   /\ \E k \in 1..(idx - 1) : offline_data[k] = r
                THEN abortedAfter[r] + 1 ELSE abortedAfter[r]]
        /\ idx' = idx + 1
        /\ pc' = IF idx < Len(offline_data) THEN "drain" ELSE "sleep"
        /\ UNCHANGED remote
  /\ UNCHANGED <<buffer, nextId, regAttempts, data, offline_data, offRun,
                 appendLog, stopCause>>
  /\ UNCHANGED <<startup, env>>

\* Variant of DrainStep: clear() is reached when a save of the drain failed
\* (the result of all(...) is not looked at).
DrainStepClearOnFailure ==
  /\ pc = "drain"
  /\ \/ /\ Len(remote) < MaxRemote
        /\ remote' = online_save(remote, offline_data[idx])
        /\ idx' = idx + 1
        /\ cyc' = [cyc EXCEPT !.attempts = @ + 1,
                     !.drain = IF idx = Len(offline_data) THEN "ok" ELSE @]
        /\ pc' = IF idx = Len(offline_data) THEN "clear" ELSE "drain"
        /\ UNCHANGED abortedAfter
     \/ /\ cyc' = [cyc EXCEPT !.attempts = @ + 1, !.drain = "fail",
                              !.failedAt = idx]
        /\ abortedAfter' =
             [r \in Readings |->
                IF \E k \in 1..(idx - 1) : offline_data[k] = r
                THEN abortedAfter[r] + 1 ELSE abortedAfter[r]]
        /\ pc' = "clear"
        /\ UNCHANGED <<remote, idx>>
  /\ UNCHANGED <<buffer, nextId, regAttempts, data, offline_data, offRun,
                 appendLog, stopCause>>
  /\ UNCHANGED <<startup, env>>

\* run(), line 88: one step of all(self.online.save(row) for ...): all()
\* stops at the first False.
DrainStep ==
  /\ pc = "drain"
  /\ \/ /\ Len(remote) < MaxRemote
        /\ remote' = online_save(remote, offline_data[idx])
        /\ idx' = idx + 1
        /\ cyc' = [cyc EXCEPT !.attempts = @ + 1,
                     !.drain = IF idx = Len(offline_data) THEN "ok" ELSE @]
        /\ pc' = IF idx = Len(offline_data) THEN "clear" ELSE "drain"
        /\ UNCHANGED abortedAfter
     \/ /\ cyc' = [cyc EXCEPT !.attempts = @ + 1, !.drain = "fail",
                              !.failedAt = idx]
        /\ abortedAfter' =
             [r \in Readings |->
                IF \E k \in 1..(idx - 1) : offline_data[k] = r
                THEN abortedAfter[r] + 1 ELSE abortedAfter[r]]
        /\ pc' = "sleep"
        /\ UNCHANGED <<remote, idx>>
  /\ UNCHANGED <<buffer, nextId, regAttempts, data, offline_data, offRun,
                 appendLog, stopCause>>

  /\ UNCHANGED <<startup, env>>
\* Variant of ClearOffline: the buffer is left as it is.
ClearOfflineSkipped ==
  /\ pc = "clear"
  /\ cyc' = [cyc EXCEPT !.cleared = TRUE]
  /\ pc' = "sleep"
  /\ UNCHANGED <<buffer, remote, nextId, regAttempts, data, offline_data, idx,
                 offRun, abortedAfter, appendLog, stopCause>>

  /\ UNCHANGED <<startup, env>>
\* run(), line 89: self.offline.clear()
ClearOffline ==
  /\ pc = "clear"
  /\ buffer' = offline_clear(buffer)
  /\ appendLog' = << >>
  /\ cyc' = [cyc EXCEPT !.cleared = TRUE]
  /\ pc' = "sleep"
  /\ UNCHANGED <<remote, nextId, regAttempts, data, offline_data, idx,
                 offRun, abortedAfter, stopCause>>

  /\ UNCHANGED <<startup, env>>
\* run(), lines 75, 80, 93: time.sleep(Config.MEASUREMENT_INTERVAL)
Sleep ==
  /\ pc = "sleep"
  /\ pc' = "assign"
  /\ cyc' = [cyc EXCEPT !.slept = @ + 1,
                        !.waited = @ + MEASUREMENT_INTERVAL]
  /\ UNCHANGED <<buffer, remote, nextId, regAttempts, data, offline_data,
                 idx, offRun, abortedAfter, appendLog, stopCause>>

  /\ UNCHANGED <<startup, env>>
InRun == pc \in {"assign", "read", "probe", "save", "load", "drain",
                 "clear", "sleep"}

\* run(), lines 95-96: KeyboardInterrupt is raised wherever the loop is.
Cancel ==
  /\ InRun
  /\ pc' = "stopped"
  /\ stopCause' = "cancel"
  /\ UNCHANGED <<buffer, remote, nextId, regAttempts, data, offline_data,
                 idx, cyc, offRun, abortedAfter, appendLog>>

  /\ UNCHANGED <<startup, env>>
Next ==
  \/ Register
  \/ IsSensorAssigned
  \/ ReadSensor
  \/ ProbeAndRoute
  \/ SaveFresh
  \/ LoadOffline
  \/ DrainStep
  \/ ClearOffline
  \/ Sleep
  \/ Cancel

Spec == Init /\ [][Next]_vars

\* ------------------------------------------- runs with settled surroundings

\* What the surroundings let a step observe.  "good": every probe finds the
\* network, the sensor row is assigned and active, every sensor read and
\* every online save succeeds, and the operator does not stop the run.
\* "nosensor": the network is reachable and the sensor is assigned, but every
\* sensor read fails.
EnvAllows ==
  /\ env = "good" =>
       /\ pc' \notin {"stopped", "crashed"}
       /\ cyc'.conn1 \in {"none", "True"}
       /\ cyc'.conn2 \in {"none", "True"}
       /\ cyc'.conn1 = "True" =>
            (cyc'.lookup.kind = "row" /\ cyc'.lookup.farm_id = "farm"
               /\ cyc'.lookup.is_active = 1)
       /\ cyc'.read # "fail"
       /\ cyc'.fresh # "fail"
       /\ cyc'.drain # "fail"
  /\ env = "nosensor" =>
       /\ pc' # "crashed"
       /\ cyc'.conn1 \in {"none", "True"}
       /\ cyc'.conn1 = "True" =>
            (cyc'.lookup.kind = "row" /\ cyc'.lookup.farm_id = "farm"
               /\ cyc'.lookup.is_active = 1)
       /\ cyc'.read # "ok"

\* From the top of some cycle on the surroundings stay good, or the sensor
\* stays broken.  They turn good only while the run can still produce one
\* reading and record the fresh write and a write per buffered reading.
EnvSettles ==
  /\ pc = "assign"
  /\ env = "any"
  /\ \/ /\ env' = "good"
        /\ nextId <= MaxReadings
        /\ Len(remote) + Len(buffer) + 1 <= MaxRemote
     \/ env' = "nosensor"
  /\ UNCHANGED <<pc, buffer, remote, nextId, regAttempts, data, offline_data,
                 idx, cyc, offRun, abortedAfter, appendLog, stopCause,
                 startup>>

\* The steps of the controller itself: the loop goes on by itself.
Progress ==
  \/ Register
  \/ IsSensorAssigned
  \/ ReadSensor
  \/ ProbeAndRoute
  \/ SaveFresh
  \/ LoadOffline
  \/ DrainStep
  \/ ClearOffline
  \/ Sleep

LiveNext ==
  \/ Progress /\ EnvAllows
  \/ Cancel /\ EnvAllows
  \/ EnvSettles

LiveSpec == Init /\ [][LiveNext]_vars /\ WF_vars(Progress /\ EnvAllows)

TypeOK ==
  /\ pc \in {"register", "assign", "read", "probe", "save", "load", "drain",
             "clear", "sleep", "stopped", "crashed"}
  /\ Len(buffer) <= MAX_OFFLINE_RECORDS
  /\ Len(remote) <= MaxRemote
  /\ nextId \in 1..(MaxReadings + 1)
  /\ data \in 0..MaxReadings
  /\ env \in {"any", "good", "nosensor"}


\* ---------------------------------------------------------------- claims

CycleEnded == pc = "sleep"

\* The last n elements of a sequence.
LastN(q, n) == SubSeq(q, Len(q) - n + 1, Len(q))

\* Number of times reading r occurs in the remote store.
Written(r) == Cardinality({i \in DOMAIN remote : remote[i] = r})

\* The oracle was asked in this cycle and its answer means Unauthorized: no
\* sensor row, no farm_id, or is_active # 1.
OracleUnauthorized ==
  \/ cyc.lookup.kind = "None"
  \/ cyc.lookup.kind = "row"
     /\ (cyc.lookup.farm_id = "None" \/ cyc.lookup.is_active # 1)

\* The oracle was asked in this cycle and answered Authorized.
OracleAuthorized ==
  /\ cyc.lookup.kind = "row"
  /\ cyc.lookup.farm_id # "None"
  /\ cyc.lookup.is_active = 1

\* Nothing was read, written or buffered in this cycle.
NothingProduced ==
  /\ cyc.read = "no"
  /\ cyc.attempts = 0
  /\ ~cyc.appended
  /\ ~cyc.cleared
  /\ buffer = cyc.bufAtStart
  /\ Len(remote) = cyc.remAtStart

\* C1 (P3, atomic drain): when the remote write of the j-th of M >= 1 buffered
\* readings fails during a drain, the buffer still holds the same M readings
\* in the same order and clear() was not called in that cycle.
C1_AtomicDrain ==
  cyc.drain = "fail" =>
    /\ Len(offline_data) >= 1
    /\ cyc.failedAt \in 1..Len(offline_data)
    /\ buffer = offline_data
    /\ buffer = cyc.bufAtStart
    /\ ~cyc.cleared

C1_Witness ==
  /\ CycleEnded
  /\ cyc.drain = "fail"
  /\ cyc.failedAt = 2
  /\ Len(buffer) = 3
  /\ Len(remote) = cyc.remAtStart + 2

\* C2 (P4, drain-then-clear): when all M writes of a drain succeed, at the end
\* of the cycle the buffer is empty and the remote store received exactly the
\* M buffered readings after the fresh one, in the buffer's FIFO order.
C2_DrainThenClear ==
  (CycleEnded /\ cyc.drain = "ok") =>
    /\ buffer = << >>
    /\ cyc.cleared
    /\ offline_data = cyc.bufAtStart
    /\ Len(remote) = cyc.remAtDrain + Len(offline_data)
    /\ SubSeq(remote, cyc.remAtDrain + 1, Len(remote)) = offline_data
    /\ cyc.attempts = 1 + Len(offline_data)

C2_Witness ==
  /\ CycleEnded
  /\ cyc.drain = "ok"
  /\ Len(offline_data) = 2
  /\ buffer = << >>

\* C3 (fallback to buffer, no loss): at the end of an Online cycle (probe
\* reachable, oracle Authorized) whose sensor read succeeded and whose fresh
\* remote write failed, the reading was appended to the buffer, so that it is
\* in the remote store or in the buffer.
C3_FallbackToBuffer ==
  (CycleEnded /\ cyc.conn1 = "True" /\ OracleAuthorized
     /\ cyc.read = "ok" /\ cyc.fresh = "fail") =>
    /\ cyc.appended
    /\ \/ \E i \in DOMAIN remote : remote[i] = data
       \/ \E i \in DOMAIN buffer : buffer[i] = data

\* C4 as stated (no duplicate remote writes): no reading occurs twice in the
\* remote store.
C4_NoDuplicateWrites ==
  \A r \in Readings : Written(r) <= 1

\* C4 as amended: a reading is written to the remote store at most once more
\* than the number of drains that forwarded it and then failed on a later
\* reading; in particular a reading never forwarded by a failed drain (every
\* reading whose fresh write succeeded) is written at most once.
C4_DuplicatesOnlyFromFailedDrains ==
  \A r \in Readings : Written(r) <= 1 + abortedAfter[r]

C4_Witness ==
  \E r \in Readings : Written(r) = 2 /\ abortedAfter[r] = 1

\* C5 (P5, exclusion over buffering): in a cycle in which the probe is
\* reachable and the oracle answers Unauthorized, the sensor is not read,
\* nothing is written to the remote store and the buffer is unchanged.
C5_ExclusionOverBuffering ==
  (cyc.conn1 = "True" /\ OracleUnauthorized) =>
    /\ NothingProduced
    /\ pc \in {"sleep", "assign", "stopped"}

C5_Witness ==
  /\ CycleEnded
  /\ OracleUnauthorized
  /\ cyc.lookup.kind = "row"
  /\ cyc.lookup.farm_id = "farm"
  /\ nextId <= MaxReadings
  /\ buffer # << >>

\* C6 (P6, fail-safe on indeterminate authorization): in a cycle in which the
\* probe is reachable and the lookup itself fails, the cycle does what an
\* Unauthorized cycle does (no read, no write, no append), not what an
\* Offline cycle does.
C6_FailSafeOnLookupError ==
  (cyc.conn1 = "True" /\ cyc.lookup.kind = "error") =>
    /\ cyc.read = "no"
    /\ data = 0
    /\ cyc.conn2 = "none"
    /\ cyc.attempts = 0
    /\ ~cyc.appended
    /\ buffer = cyc.bufAtStart
    /\ Len(remote) = cyc.remAtStart

C6_Witness ==
  /\ CycleEnded
  /\ cyc.lookup.kind = "error"
  /\ nextId <= MaxReadings
  /\ nextId > 1

\* C7 (remote writes require a fresh Authorized verdict): in a cycle in which
\* a reading was written to the remote store, the oracle was asked in that
\* cycle and answered Authorized.
C7_WritesNeedAuthorized ==
  Len(remote) > cyc.remAtStart => OracleAuthorized

\* C8 (P1, no loss while offline): after N <= MaxCapacity consecutive cycles
\* that found the network unreachable and read the sensor successfully, the
\* oracle was not asked, no remote write was attempted, and the N readings
\* are the last N entries of the buffer, in production order.
C8_NoLossWhileOffline ==
  (CycleEnded /\ offRun >= 1 /\ offRun <= MAX_OFFLINE_RECORDS) =>
    /\ cyc.lookup = NotAsked
    /\ cyc.attempts = 0
    /\ Len(remote) = cyc.remAtStart
    /\ Len(buffer) >= offRun
    /\ LastN(buffer, offRun) = [k \in 1..offRun |-> nextId - offRun - 1 + k]

C8_Witness ==
  /\ CycleEnded
  /\ offRun = MAX_OFFLINE_RECORDS
  /\ Len(buffer) = MAX_OFFLINE_RECORDS

\* C9 (P2, bounded buffer with oldest-first eviction): the buffer never holds
\* more than MaxCapacity readings; it holds the most recent
\* min(MaxCapacity, n) of the n readings appended since the last clear, in
\* order, so an append is never rejected.
C9_BoundedOldestFirst ==
  /\ Len(buffer) <= MAX_OFFLINE_RECORDS
  /\ LET n == IF Len(appendLog) <= MAX_OFFLINE_RECORDS
              THEN Len(appendLog) ELSE MAX_OFFLINE_RECORDS
     IN buffer = LastN(appendLog, n)
  /\ (cyc.appended /\ ~cyc.cleared /\ pc \in {"sleep", "assign", "stopped"}) =>
       (buffer # << >> /\ buffer[Len(buffer)] = data)

C9_Witness ==
  /\ Len(appendLog) = MAX_OFFLINE_RECORDS + 1
  /\ Len(buffer) = MAX_OFFLINE_RECORDS
  /\ buffer[1] = appendLog[2]

\* C10 (the cycle loop is never aborted by a failing external call): run()
\* ends only because the operator cancelled.
C10_LoopNeverAborted ==
  stopCause # "exception"

\* C11 (clean cancellation): the operator's stop takes effect only between
\* cycles, that is while the loop sleeps or before the next cycle's first
\* call; a cycle in progress runs to completion first.
C11_StopOnlyBetweenCycles ==
  [][pc' = "stopped" => pc \in {"sleep", "assign"}]_vars

\* C12 (drain only after a successful fresh write): the buffer is loaded,
\* buffered readings are written and clear() is called only in a cycle whose
\* fresh write succeeded; the remote store then received the fresh reading
\* first and the buffered readings after it in FIFO order; a cycle without a
\* successful fresh write writes nothing and does not clear the buffer.
C12_DrainOnlyAfterFreshWrite ==
  /\ (idx >= 1 \/ pc \in {"load", "drain", "clear"} \/ cyc.drain # "none"
        \/ cyc.cleared) => cyc.fresh = "ok"
  /\ cyc.fresh = "ok" =>
       /\ Len(remote) > cyc.remAtStart
       /\ remote[cyc.remAtStart + 1] = data
       /\ SubSeq(remote, cyc.remAtStart + 2, Len(remote))
            = SubSeq(offline_data, 1, Len(remote) - cyc.remAtStart - 1)
  /\ cyc.fresh # "ok" =>
       /\ ~cyc.cleared
       /\ Len(remote) = cyc.remAtStart
       /\ (cyc.appended \/ buffer = cyc.bufAtStart)

C12_Witness ==
  /\ CycleEnded
  /\ cyc.cleared
  /\ Len(cyc.bufAtStart) = MAX_OFFLINE_RECORDS
  /\ cyc.bufAtStart[1] = 2
  /\ remote = <<data>> \o cyc.bufAtStart
  /\ buffer = << >>

\* C14 (sensor read failure produces nothing): in a cycle whose sensor read
\* failed, no remote write and no drain is attempted and the buffer is
\* unchanged, whether the cycle was online or offline.
C14_ReadFailureProducesNothing ==
  cyc.read = "fail" =>
    /\ data = 0
    /\ cyc.conn2 = "none"
    /\ cyc.attempts = 0
    /\ cyc.fresh = "none"
    /\ cyc.drain = "none"
    /\ idx = 0
    /\ ~cyc.appended
    /\ ~cyc.cleared
    /\ buffer = cyc.bufAtStart
    /\ Len(remote) = cyc.remAtStart

C14_Witness ==
  /\ CycleEnded
  /\ cyc.read = "fail"
  /\ cyc.conn1 = "True"
  /\ buffer # << >>
  /\ nextId <= MaxReadings

\* C17 (drain stops at the first failure): when the j-th write of a drain of
\* M readings fails, the remote store received exactly the first j-1 buffered
\* readings in FIFO order and readings j+1..M were not attempted.
C17_DrainStopsAtFirstFailure ==
  cyc.drain = "fail" =>
    /\ cyc.failedAt \in 1..Len(offline_data)
    /\ idx = cyc.failedAt
    /\ cyc.attempts = 1 + cyc.failedAt
    /\ Len(remote) = cyc.remAtDrain + cyc.failedAt - 1
    /\ SubSeq(remote, cyc.remAtDrain + 1, Len(remote))
         = SubSeq(offline_data, 1, cyc.failedAt - 1)

C17_Witness ==
  /\ CycleEnded
  /\ cyc.drain = "fail"
  /\ cyc.failedAt = 2
  /\ Len(offline_data) = 3
  /\ remote[Len(remote)] = offline_data[1]

\* C18 (single destination per fresh reading): in a cycle the sensor is read
\* at most once and the fresh reading is handed to at most one of the online
\* save and the offline save, never both.
C18_SingleDestination ==
  /\ cyc.reads <= 1
  /\ ~(cyc.fresh # "none" /\ cyc.appended)
  /\ (cyc.fresh # "none" \/ cyc.appended) => (cyc.read = "ok" /\ data # 0)

C18_Witness ==
  /\ CycleEnded
  /\ cyc.reads = 1
  /\ cyc.fresh = "fail"
  /\ ~cyc.appended
  /\ cyc.conn2 = "True"

\* C13 (startup registration): registration is attempted at most once,
\* before the first cycle and only when the startup probe reported reachable;
\* whether it succeeds, fails or is not attempted, the cycle loop starts.
C13_RegistrationOnceLoopStarts ==
  /\ regAttempts <= 1
  /\ regAttempts = 1 => startup.probe = "True"
  /\ pc = "register" => (regAttempts = 0 /\ cyc = NewCycle)
  /\ startup.outcome \in {"registered", "failed"} <=> regAttempts = 1
  /\ stopCause # "init_exception"

\* A cycle has been started and is not yet back at the top of the loop.
InCycle == pc \in {"read", "probe", "save", "load", "drain", "clear", "sleep"}

\* C15 (no overlapping cycles, one fixed delay per cycle): while a cycle is
\* routing or draining no wait has happened; the next cycle starts only after
\* exactly one wait of the measurement interval, on every path; the buffer is
\* changed only by the offline save or the clear of the cycle in progress.
C15_OneDelayPerCycle ==
  /\ [](/\ InCycle => (cyc.slept = 0 /\ cyc.waited = 0)
        /\ (pc = "assign" /\ cyc.conn1 # "none") =>
             (cyc.slept = 1 /\ cyc.waited = MEASUREMENT_INTERVAL))
  /\ [][/\ (pc' = "assign" /\ pc # "assign") => pc \in {"sleep", "register"}
        /\ buffer' # buffer => (pc \in {"probe", "clear"} /\ cyc.slept = 0)
       ]_vars

C15_Witness ==
  /\ pc = "assign"
  /\ cyc.slept = 1
  /\ cyc.waited = MEASUREMENT_INTERVAL
  /\ cyc.cleared
  /\ buffer = << >>

\* Membership of a reading in a sequence of readings.
InSeq(r, q) == \E i \in DOMAIN q : q[i] = r

\* C16 (eventual drain): once connectivity stays reachable, the oracle says
\* Authorized, sensor reads succeed and every remote write succeeds, the
\* buffer eventually becomes empty and every reading that was in it has been
\* written to the remote store; while sensor reads keep failing, the buffer is
\* never drained although the store is reachable and the sensor authorized.
C16_EventualDrain ==
  /\ (env = "good") ~> (buffer = << >>)
  /\ [](buffer = << >> =>
         \A i \in DOMAIN cyc.bufAtStart : InSeq(cyc.bufAtStart[i], remote))
  /\ [][(env = "nosensor" /\ buffer # << >>) =>
          (buffer' = buffer /\ remote' = remote)]_vars

C16_Witness ==
  /\ env = "good"
  /\ CycleEnded
  /\ cyc.cleared
  /\ buffer = << >>
  /\ Len(cyc.bufAtStart) = MAX_OFFLINE_RECORDS
  /\ \A i \in DOMAIN cyc.bufAtStart : InSeq(cyc.bufAtStart[i], remote)

\* While the sensor stays broken a non-empty buffer is met at the top of a
\* cycle that finds the network reachable and the sensor authorized.
C16_WitnessNoSensor ==
  /\ env = "nosensor"
  /\ CycleEnded
  /\ cyc.read = "fail"
  /\ cyc.conn1 = "True"
  /\ buffer # << >>

====
